---- MODULE Spec2Model ----
(***************************************************************************)
(* The hotspot pipeline of the listed-buildings map: CSV rows are ingested *)
(* (rows without valid coordinates are dropped), every point is buffered   *)
(* to a disk, the disks are dissolved by a unary union, the dissolved      *)
(* regions are optionally shrunk by a negative buffer, and the polygons    *)
(* are filtered by area >= min-area.                                       *)
(*                                                                         *)
(* Geometry is modelled on a sample lattice of half-unit spacing: a point  *)
(* (x, y) sits at lattice position (2x, 2y), a polygon is the set of       *)
(* lattice samples it covers, its area is the number of samples, and two   *)
(* samples belong to the same polygon when a path of 4-adjacent samples of *)
(* the region joins them.                                                  *)
(***************************************************************************)
EXTENDS Integers, Sequences, FiniteSets

\* ------------------------------------------------------------- bounds
\* Largest number of CSV rows of one run.
MaxPts == 3
\* Points lie on two rows of sites: x ranges over 0..MaxX, y over 0..1.
MaxX == 4
\* --buffer ranges over -1..MaxBuffer, --negative-buffer over -1..MaxNeg.
MaxBuffer == 2
MaxNeg == 1
\* --min-area ranges over -AreaStep, 0 and AreaStep.
AreaStep == 15
\* Numbers of the page carry FracDigits decimal digits.
FracDigits == 5
\* The hotspots have the ids 0..MaxFeatureId, or no id.
MaxFeatureId == 4
\* The fit-bounds button is clicked at most MaxClicks times.
MaxClicks == 2
\* Time passes in steps of TickMs milliseconds.
TickMs == 50
\* The user acts on the page at most MaxInputs times.
MaxInputs == 3
\* A hash typed into the address bar has at most MaxHashLen characters
\* after its '#'.
MaxHashLen == 7
\* The runs that look at necks take two points, the second with y over
\* 0..MaxY, and buffers one step beyond MaxBuffer and MaxNeg.
MaxY == 4

VARIABLES
    csv,      \* the rows of data/listed_buildings.csv
    config,   \* the hotspots parameters: buffer, negative-buffer, min-area
    pc,       \* how far the run has got
    points,   \* the rows ingest kept
    disks,    \* stage 1: one buffered disk per point
    regions,  \* stage 2: the dissolved polygons
    shrunk,   \* stage 3: the polygons after the negative buffer
    output,   \* stage 4: the polygons that passed the area filter
    error     \* the error the run ended in, or "none"

pipeVars == <<csv, config, pc, points, disks, regions, shrunk, output, error>>

VARIABLES
    goal,     \* the target given to make
    tools,    \* which of tippecanoe and pmtiles are installed
    running,  \* the target whose recipe is running, or "none"
    status,   \* "idle", "making", "ok" or "error"
    trace     \* what make has done and printed so far, in order

makeVars == <<goal, tools, running, status, trace>>

VARIABLES
    hash,               \* window.location.hash, as a sequence of characters
    loaded,             \* whether app.js has run
    initialPosition,    \* what getInitialPosition returned
    view,               \* the map's position: zoom, lat, lng
    moving,             \* whether a user gesture is moving the map
    queue,              \* hashchange events raised and not yet handled
    timers,             \* pending timeouts: id |-> ms left
    hashUpdateTimeout,  \* the id the moveend handler keeps, 0 for undefined
    sinceMoveend,       \* ms since the last moveend, up to Delay
    handled,            \* what the hashchange handler last did
    written,            \* what updateHash last did
    count               \* how often each thing has happened

hashVars == <<hash, loaded, initialPosition, view, moving, queue, timers,
              hashUpdateTimeout, sinceMoveend, handled, written, count>>

VARIABLES
    mapLoaded,          \* whether the map's load callback has run
    hoveredHotspotId,   \* the id the hover handlers keep
    featureState,       \* hover of each hotspot: "unset", "false" or "true"
    cursor,             \* map.getCanvas().style.cursor
    lastEvent,          \* the last mouse event on hotspots-fill
    dataBounds,         \* the bounds kept for the fit button, <<>> for null
    fetch,              \* how far the bounds promise chain has got
    header,             \* the PMTiles header, once getHeader has resolved
    fitted,             \* what the last click on fit-bounds did
    clicks              \* how often fit-bounds has been clicked

loadVars == <<mapLoaded, hoveredHotspotId, featureState, cursor, lastEvent,
              dataBounds, fetch, header, fitted, clicks>>

vars == <<pipeVars, makeVars, hashVars, loadVars>>

\* What an action of one part leaves alone: the variables of the others.
offPipe == <<makeVars, hashVars, loadVars>>
offMake == <<pipeVars, hashVars, loadVars>>
offHash == <<pipeVars, makeVars, loadVars>>
offLoad == <<pipeVars, makeVars, hashVars>>

\* ------------------------------------------------------------- data
\* A coordinate is a finite number or not (NaN, or a missing cell).
Num(v) == [fin |-> TRUE, v |-> v]
NaN == [fin |-> FALSE, v |-> 0]

Sites == {[x |-> Num(a), y |-> Num(b)] : a \in 0..MaxX, b \in 0..1}
BadRows == {[x |-> NaN, y |-> Num(0)], [x |-> Num(0), y |-> NaN]}
Rows == Sites \cup BadRows

\* The pipeline never reads a row's position in the file, so the files are
\* enumerated up to the order of their rows: rows with a missing coordinate
\* first, then the sites from west to east.
RowRank(r) ==
    IF r.x.fin /\ r.y.fin THEN 2 * r.x.v + r.y.v + 1
    ELSE IF r.x.fin THEN 0 ELSE -1

CsvFiles ==
    {f \in UNION {[1..k -> Rows] : k \in 0..MaxPts} :
        \A i \in DOMAIN f : \A j \in DOMAIN f : i < j => RowRank(f[i]) <= RowRank(f[j])}

MinAreas == {-AreaStep, 0, AreaStep}

Configs ==
    [bufferDistance : -1..MaxBuffer,
     negativeBufferDistance : -1..MaxNeg,
     minArea : MinAreas]

\* Files of two valid rows, the first at the origin and the second on a
\* wider band of sites, far enough apart in y for two disks to be joined by
\* a neck narrower than the disks.
NeckSites == {[x |-> Num(a), y |-> Num(b)] : a \in 0..MaxX, b \in 0..MaxY}

NeckFiles == {<<[x |-> Num(0), y |-> Num(0)], site>> : site \in NeckSites}

NeckConfigs ==
    [bufferDistance : 1..(MaxBuffer + 1),
     negativeBufferDistance : 0..(MaxNeg + 1),
     minArea : MinAreas]

\* ------------------------------------------------------------- strings
\* A string is a sequence of one-character strings.
DigitChars == <<"0", "1", "2", "3", "4", "5", "6", "7", "8", "9">>
IsDigit(c) == \E i \in DOMAIN DigitChars : DigitChars[i] = c
DigitOf(c) == (CHOOSE i \in DOMAIN DigitChars : DigitChars[i] = c) - 1

\* The decimal digits of the natural number n.
RECURSIVE NatToString(_)
NatToString(n) ==
    IF n < 10 THEN <<DigitChars[n + 1]>>
    ELSE NatToString(n \div 10) \o <<DigitChars[(n % 10) + 1]>>

\* The natural number a sequence of digits writes; 0 for no digits.
RECURSIVE StringToNat(_)
StringToNat(ds) ==
    IF ds = <<>> THEN 0
    ELSE 10 * StringToNat(SubSeq(ds, 1, Len(ds) - 1)) + DigitOf(ds[Len(ds)])

\* A number of the page: its sign, its whole part, and its fraction as a
\* count of units of 10^-FracDigits.  Minus zero is a number of its own.
Unit == 10 ^ FracDigits
Number(neg, whole, frac) == [fin |-> TRUE, neg |-> neg, whole |-> whole, frac |-> frac]
IsZero(x) == x.whole = 0 /\ x.frac = 0

\* How many digits s has from position i on, before its first non-digit.
RECURSIVE DigitRun(_, _)
DigitRun(s, i) ==
    IF i <= Len(s) /\ IsDigit(s[i]) THEN 1 + DigitRun(s, i + 1) ELSE 0

\* str.replace('#', ''): the string without its first '#'.
RemoveFirstHash(s) ==
    LET at == {i \in DOMAIN s : s[i] = "#"}
    IN  IF at = {} THEN s
        ELSE LET k == CHOOSE i \in at : \A j \in at : i <= j
             IN  SubSeq(s, 1, k - 1) \o SubSeq(s, k + 1, Len(s))

\* str.split('/'): the pieces between the slashes, empty pieces included.
RECURSIVE Split(_)
Split(s) ==
    LET at == {i \in DOMAIN s : s[i] = "/"}
    IN  IF at = {} THEN <<s>>
        ELSE LET k == CHOOSE i \in at : \A j \in at : i <= j
             IN  <<SubSeq(s, 1, k - 1)>> \o Split(SubSeq(s, k + 1, Len(s)))

\* A parse that wants the whole string to be a number, as Number(s) does.
ParseFloatWholeString(s) ==
    LET sign == IF s # <<>> /\ s[1] \in {"-", "+"} THEN 1 ELSE 0
        ints == DigitRun(s, sign + 1)
        dot == sign + ints + 1
        fracs == IF dot <= Len(s) /\ s[dot] = "." THEN DigitRun(s, dot + 1) ELSE 0
        used == sign + ints + (IF dot <= Len(s) /\ s[dot] = "." THEN 1 + fracs ELSE 0)
        kept == IF fracs > FracDigits THEN FracDigits ELSE fracs
    IN  IF ints + fracs = 0 \/ used # Len(s) THEN NaN
        ELSE Number(sign = 1 /\ s[1] = "-",
                    StringToNat(SubSeq(s, sign + 1, sign + ints)),
                    StringToNat(SubSeq(s, dot + 1, dot + kept)) * (10 ^ (FracDigits - kept)))
\* parseFloat(s): the number written by the longest prefix of s that is a
\* decimal literal (sign, digits, point, digits), NaN when there is none.
\* Characters after that prefix are ignored.  Digits past FracDigits
\* decimals are dropped.
ParseFloat(s) ==
    LET sign == IF s # <<>> /\ s[1] \in {"-", "+"} THEN 1 ELSE 0
        ints == DigitRun(s, sign + 1)
        dot == sign + ints + 1
        fracs == IF dot <= Len(s) /\ s[dot] = "." THEN DigitRun(s, dot + 1) ELSE 0
        kept == IF fracs > FracDigits THEN FracDigits ELSE fracs
    IN  IF ints + fracs = 0 THEN NaN
        ELSE Number(sign = 1 /\ s[1] = "-",
                    StringToNat(SubSeq(s, sign + 1, sign + ints)),
                    StringToNat(SubSeq(s, dot + 1, dot + kept)) * (10 ^ (FracDigits - kept)))

\* isNaN(x)
IsNaN(x) == ~x.fin

\* x.toFixed(f) for f <= FracDigits: x rounded to f decimals, the half
\* rounded away from zero, written with a leading "-" when x < 0, at least
\* one digit before the point and exactly f after it.
ToFixed(x, f) ==
    LET step == 10 ^ (FracDigits - f)
        r == (x.frac + (step \div 2)) \div step
        carry == IF r = 10 ^ f THEN 1 ELSE 0
        ds == NatToString(r - carry * (10 ^ f))
        zeros == [i \in 1..(f - Len(ds)) |-> "0"]
    IN  (IF x.neg /\ ~IsZero(x) THEN <<"-">> ELSE <<>>) \o
        NatToString(x.whole + carry) \o <<".">> \o zeros \o ds

\* ------------------------------------------------------------- ingest
\* A row has valid coords when both coordinates are finite numbers.
ValidCoordsXOnly(r) == r.x.fin
ValidCoords(r) == r.x.fin /\ r.y.fin

\* ingest: drop rows without valid coords, keep the others in order.
DropInvalid(rows) == SelectSeq(rows, ValidCoords)

\* ------------------------------------------------------------- geometry
Sq(a) == a * a

\* A sample (u, v) of the lattice is held as the number u + Width * v,
\* counted from a corner far enough out that no polygon reaches the rim,
\* so that moving by an offset is an addition.
Margin == 2 * (MaxBuffer + 1) + 2 * (MaxNeg + 1) + 1
Width == 2 * MaxX + 2 * Margin + 1
Sample(u, v) == (u + Margin) + Width * (v + Margin)
Offset(a, b) == a + Width * b
Shift(s, o) == s + o

\* The samples of the open disk of radius d about the origin (lattice
\* spacing one half, so the radius is 2d lattice steps).  Empty for d <= 0.
DiskTable[d \in -1..(MaxBuffer + 1)] ==
    {Offset(o[1], o[2]) : o \in {q \in (-2 * d..2 * d) \X (-2 * d..2 * d) :
                                    Sq(q[1]) + Sq(q[2]) < Sq(2 * d)}}

\* The samples within distance n of the origin, the origin included.
BallTable[n \in 0..(MaxNeg + 1)] ==
    {Offset(o[1], o[2]) : o \in {q \in (-2 * n..2 * n) \X (-2 * n..2 * n) :
                                    Sq(q[1]) + Sq(q[2]) <= Sq(2 * n)}}

\* The disk of diameter d centred on p: the buffer distance taken as the
\* width of the disk, not its radius.
BufferAsDiameter(p, d) ==
    IF p.x.fin /\ p.y.fin
    THEN {Shift(Sample(2 * p.x.v, 2 * p.y.v), Offset(q[1], q[2])) :
             q \in {q \in (-d..d) \X (-d..d) : Sq(q[1]) + Sq(q[2]) < Sq(d)}}
    ELSE {}
\* The buffer drawn as the square of side 2d centred on p.
BufferAsSquare(p, d) ==
    IF p.x.fin /\ p.y.fin
    THEN {Shift(Sample(2 * p.x.v, 2 * p.y.v), Offset(q[1], q[2])) :
             q \in {q \in (-2 * d..2 * d) \X (-2 * d..2 * d) :
                        Sq(q[1]) < Sq(2 * d) /\ Sq(q[2]) < Sq(2 * d)}}
    ELSE {}
\* Step 2, one point: the disk of radius d centred on p.  A point without
\* valid coordinates buffers to the empty geometry.
Buffer(p, d) ==
    IF ValidCoords(p)
    THEN {Shift(Sample(2 * p.x.v, 2 * p.y.v), o) : o \in DiskTable[d]}
    ELSE {}

\* Buffering after dropping every row that occurs more than once, all of
\* its copies included.
BufferAllDropRepeated(pts, d) ==
    LET once == SelectSeq(pts, LAMBDA p : Cardinality({i \in DOMAIN pts : pts[i] = p}) = 1)
    IN  [i \in DOMAIN once |-> Buffer(once[i], d)]
\* Step 2: buffer all points by buffer, one disk per row, repeated rows
\* included.
BufferAll(pts, d) == [i \in DOMAIN pts |-> Buffer(pts[i], d)]

\* The four samples next to s: east, west, north and south.
Neighbours(s) == {s + 1, s - 1, s + Width, s - Width}

\* The connected part of S that holds comp, grown outwards one ring at a
\* time: a new ring is made of the samples of S next to the last ring
\* that are in neither of the last two rings.
RECURSIVE Grow(_, _, _, _)
Grow(comp, prev, ring, S) ==
    LET nxt == {t \in UNION {Neighbours(c) : c \in ring} :
                   t \in S /\ t \notin ring /\ t \notin prev}
    IN  IF nxt = {} THEN comp ELSE Grow(comp \cup nxt, ring, nxt, S)

\* The polygons of a region: its maximal connected parts.  None for the
\* empty geometry.
RECURSIVE Parts(_)
Parts(S) ==
    IF S = {} THEN {}
    ELSE LET seed == CHOOSE s \in S : TRUE
             part == Grow({seed}, {}, {seed}, S)
         IN  {part} \cup Parts({t \in S : t \notin part})

\* A union that merges each disk with the disks it overlaps directly, and
\* does not follow chains.
UnaryUnionPairwise(ds) ==
    {UNION {ds[j] : j \in {k \in DOMAIN ds : ds[k] \cap ds[i] # {}}} : i \in DOMAIN ds} \ {{}}
\* A union that wraps whatever it gets, the empty geometry included, as
\* one geometry.
UnaryUnionOneGeometry(ds) == {UNION {ds[i] : i \in DOMAIN ds}}
\* No dissolve at all: every disk stays a polygon of its own.
UnaryUnionSkipped(ds) == {ds[i] : i \in DOMAIN ds} \ {{}}
\* Step 3: unary_union to dissolve.
UnaryUnion(ds) == Parts(UNION {ds[i] : i \in DOMAIN ds})

\* The outward buffer of a polygon by n.
PositiveBuffer(poly, n) == {Shift(s, o) : s \in poly, o \in BallTable[n]}
\* Step 4, one polygon: the samples whose whole neighbourhood of radius n
\* lies in the polygon.
NegativeBuffer(poly, n) == {s \in poly : \A o \in BallTable[n] : Shift(s, o) \in poly}

\* A shrunk geometry kept as it comes: whole when it has split, and as an
\* empty polygon when it has vanished.
ExplodeKeepWhole(geom) == {geom}
\* The polygons a shrunk geometry contributes: none when it has vanished,
\* each part when it has split.
Explode(geom) == Parts(geom)

\* Step 4: if negative-buffer > 0, apply negative buffer.
ApplyNegativeBuffer(polys, n) ==
    IF n > 0 THEN UNION {Explode(NegativeBuffer(r, n)) : r \in polys} ELSE polys

Area(poly) == Cardinality(poly)

\* The area filter run on the polygons of the union, before the negative
\* buffer has shrunk them.
FilterByAreaBeforeShrink(polys, minArea) == {p \in regions : Area(p) >= minArea}
FilterByAreaStrict(polys, minArea) == {p \in polys : Area(p) > minArea}
FilterByAreaInverted(polys, minArea) == {p \in polys : Area(p) <= minArea}
\* Step 5: filter polygons by area >= min-area.
FilterByArea(polys, minArea) == {p \in polys : Area(p) >= minArea}

\* ------------------------------------------------------------- configuration
ConfigValidZeroBuffer(c) ==
    c.bufferDistance >= 0 /\ c.negativeBufferDistance >= 0 /\ c.minArea >= 0
\* bufferDistance > 0, negativeBufferDistance >= 0, minArea >= 0.
ConfigValid(c) ==
    c.bufferDistance > 0 /\ c.negativeBufferDistance >= 0 /\ c.minArea >= 0

\* ------------------------------------------------------------- the run
\* Values of the page's variables that hold nothing yet.
NoPosition == [center |-> <<NaN, NaN>>, zoom |-> NaN]
NoView == [zoom |-> NaN, lat |-> NaN, lng |-> NaN]

NoCounts ==
    [inputs |-> 0, navs |-> 0, raised |-> 0, handled |-> 0, jumps |-> 0,
     userEnds |-> 0, moveends |-> 0, updates |-> 0]

\* The page is not open.
HashIdle ==
    /\ hash = <<>>
    /\ loaded = FALSE
    /\ initialPosition = NoPosition
    /\ view = NoView
    /\ moving = FALSE
    /\ queue = 0
    /\ timers = <<>>
    /\ hashUpdateTimeout = 0
    /\ sinceMoveend = 0
    /\ handled = [hash |-> <<>>, jumped |-> FALSE, center |-> <<NaN, NaN>>, zoom |-> NaN,
                  before |-> NoView]
    /\ written = [hash |-> <<>>, view |-> NoView, since |-> 0, at |-> NoView]
    /\ count = NoCounts

\* null, undefined and a feature id, as values of hoveredHotspotId.
Null == [kind |-> "null", n |-> 0]
Undefined == [kind |-> "undefined", n |-> 0]
Id(n) == [kind |-> "id", n |-> n]

NoHeader == [minLon |-> 0, maxLon |-> 0, minLat |-> 0, maxLat |-> 0]

\* The map's load callback has not run and the fit button is untouched.
LoadIdle ==
    /\ mapLoaded = FALSE
    /\ hoveredHotspotId = Null
    /\ featureState = [f \in 0..MaxFeatureId |-> "unset"]
    /\ cursor = ""
    /\ lastEvent = "none"
    /\ dataBounds = <<>>
    /\ fetch = "idle"
    /\ header = NoHeader
    /\ fitted = [bounds |-> <<>>, at |-> "idle"]
    /\ clicks = 0

\* No make is in progress.
MakeIdle ==
    /\ goal = "none"
    /\ tools = [tippecanoe |-> FALSE, pmtiles |-> FALSE]
    /\ running = "none"
    /\ status = "idle"
    /\ trace = <<>>

\* No run of the pipeline is in progress.
PipeIdle ==
    /\ csv = <<>>
    /\ config = [bufferDistance |-> 0, negativeBufferDistance |-> 0, minArea |-> 0]
    /\ pc = "idle"
    /\ points = <<>>
    /\ disks = <<>>
    /\ regions = {}
    /\ shrunk = {}
    /\ output = {}
    /\ error = "none"

Init ==
    /\ LoadIdle
    /\ MakeIdle
    /\ HashIdle
    /\ csv \in CsvFiles
    /\ config \in Configs
    /\ pc = "start"
    /\ points = <<>>
    /\ disks = <<>>
    /\ regions = {}
    /\ shrunk = {}
    /\ output = {}
    /\ error = "none"

\* make ingest
Ingest ==
    /\ pc = "start"
    /\ points' = DropInvalid(csv)
    /\ pc' = "ingested"
    /\ UNCHANGED <<csv, config, disks, regions, shrunk, output, error>>
    /\ UNCHANGED offPipe

\* make hotspots, before step 1: a malformed configuration fails fast.
Validate ==
    /\ pc = "ingested"
    /\ IF ConfigValid(config)
       THEN pc' = "validated" /\ error' = error
       ELSE pc' = "failed" /\ error' = "ConfigurationError"
    /\ UNCHANGED <<csv, config, points, disks, regions, shrunk, output>>
    /\ UNCHANGED offPipe

\* Step 2: buffer all points by buffer.
BufferPoints ==
    /\ pc = "validated"
    /\ disks' = BufferAll(points, config.bufferDistance)
    /\ pc' = "buffered"
    /\ UNCHANGED <<csv, config, points, regions, shrunk, output, error>>
    /\ UNCHANGED offPipe

\* Step 3: unary_union to dissolve.
Dissolve ==
    /\ pc = "buffered"
    /\ regions' = UnaryUnion(disks)
    /\ pc' = "unioned"
    /\ UNCHANGED <<csv, config, points, disks, shrunk, output, error>>
    /\ UNCHANGED offPipe

\* Step 4: if negative-buffer > 0, apply negative buffer.
Shrink ==
    /\ pc = "unioned"
    /\ shrunk' = ApplyNegativeBuffer(regions, config.negativeBufferDistance)
    /\ pc' = "shrunk"
    /\ UNCHANGED <<csv, config, points, disks, regions, output, error>>
    /\ UNCHANGED offPipe

\* Step 5: filter polygons by area >= min-area.
FilterPolygons ==
    /\ pc = "shrunk"
    /\ output' = FilterByArea(shrunk, config.minArea)
    /\ pc' = "done"
    /\ UNCHANGED <<csv, config, points, disks, regions, shrunk, error>>
    /\ UNCHANGED offPipe

Next ==
    \/ Ingest
    \/ Validate
    \/ BufferPoints
    \/ Dissolve
    \/ Shrink
    \/ FilterPolygons

Spec == Init /\ [][Next]_vars

\* The same run over a file of two points on the wider band of sites.
NeckInit ==
    /\ LoadIdle
    /\ MakeIdle
    /\ HashIdle
    /\ csv \in NeckFiles
    /\ config \in NeckConfigs
    /\ pc = "start"
    /\ points = <<>>
    /\ disks = <<>>
    /\ regions = {}
    /\ shrunk = {}
    /\ output = {}
    /\ error = "none"

NeckSpec == NeckInit /\ [][Next]_vars

\* ------------------------------------------------------------- make
\* The targets of the Makefile, all of them phony: always remade.
Targets == {"env", "ingest", "hotspots", "package", "build", "serve", "clean", "help"}

\* The prerequisites with hotspots listed before ingest.
PrerequisitesHotspotsFirst(t) ==
    IF t = "build" THEN <<"hotspots", "ingest", "package">> ELSE <<>>
\* build: ingest hotspots package.  No other target has prerequisites.
Prerequisites(t) ==
    IF t = "build" THEN <<"ingest", "hotspots", "package">> ELSE <<>>

Event(ev, what) == [ev |-> ev, what |-> what]

\* The targets whose recipe has run to the end with exit status 0.
Made == {trace[i].what : i \in {k \in DOMAIN trace : trace[k].ev = "end"}}

\* The target make runs next: without -j, the first prerequisite of the
\* goal, in the order listed, that is not made yet, and the goal itself
\* once all of them are.
NextTarget ==
    LET pre == Prerequisites(goal)
        left == {i \in DOMAIN pre : pre[i] \notin Made}
    IN  IF left # {} THEN pre[CHOOSE i \in left : \A j \in left : i <= j]
        ELSE goal

\* The line a recipe prints first, "" for a recipe that starts silently.
FirstEcho(t) ==
    CASE t = "ingest" -> "Ingesting CSV data..."
      [] t = "hotspots" -> "Generating hotspots in EPSG:27700 (native British National Grid)..."
      [] t = "package" -> "Packaging tiles..."
      [] t = "build" -> "Build complete!"
      [] t = "serve" -> "Starting web server on http://localhost:8080"
      [] t = "help" -> "Listed Buildings Map - Build System"
      [] OTHER -> ""

\* The lines a recipe prints after its first one when it runs to the end.
LaterEchoes(t) ==
    CASE t = "package" ->
            IF tools.tippecanoe
            THEN <<Event("echo", "Using tippecanoe to create tiles..."),
                   Event("echo", IF tools.pmtiles THEN "Converting to PMTiles..."
                                 ELSE "PMTiles not found, copying MBTiles...")>>
            ELSE <<Event("echo", "Warning: tippecanoe not found. Tiles not created."),
                   Event("echo", "Install tippecanoe to generate vector tiles.")>>
      [] t = "clean" -> <<Event("echo", "Cleaned build artifacts")>>
      [] OTHER -> <<>>

\* The recipes that only echo cannot exit with an error.
CanFail(t) == t \notin {"help", "build"}

MakeInit ==
    /\ LoadIdle
    /\ PipeIdle
    /\ HashIdle
    /\ goal \in Targets
    /\ tools \in [tippecanoe : BOOLEAN, pmtiles : BOOLEAN]
    /\ running = "none"
    /\ status = "making"
    /\ trace = <<>>

\* make starts the recipe of the next target.
StartRecipe ==
    /\ status = "making"
    /\ running = "none"
    /\ running' = NextTarget
    /\ trace' = trace \o <<Event("start", NextTarget)>> \o
                 (IF FirstEcho(NextTarget) = "" THEN <<>>
                  ELSE <<Event("echo", FirstEcho(NextTarget))>>)
    /\ UNCHANGED <<goal, tools, status>>
    /\ UNCHANGED offMake

\* The running recipe ends with exit status 0; make is done when it was
\* the goal's.
RecipeSucceeds ==
    /\ status = "making"
    /\ running # "none"
    /\ trace' = trace \o LaterEchoes(running) \o <<Event("end", running)>>
    /\ running' = "none"
    /\ status' = IF running = goal THEN "ok" ELSE "making"
    /\ UNCHANGED <<goal, tools>>
    /\ UNCHANGED offMake

\* The running recipe ends with an error; make stops.
RecipeFails ==
    /\ status = "making"
    /\ running # "none"
    /\ CanFail(running)
    /\ trace' = trace \o <<Event("fail", running)>>
    /\ running' = "none"
    /\ status' = "error"
    /\ UNCHANGED <<goal, tools>>
    /\ UNCHANGED offMake

MakeNext ==
    \/ StartRecipe
    \/ RecipeSucceeds
    \/ RecipeFails

MakeSpec == MakeInit /\ [][MakeNext]_vars

\* ------------------------------------------------------------- the page
\* setTimeout(updateHash, 100)
Delay == 100
\* new maplibregl.Map({ ..., maxZoom: 18, minZoom: 3 })
MaxZoom == 18
MinZoom == 3

\* window.MAP_CONFIG: center [-1.6, 53.5], zoom 6.
MAP_CONFIG ==
    [center |-> <<Number(TRUE, 1, 6 * (Unit \div 10)), Number(FALSE, 53, 5 * (Unit \div 10))>>,
     zoom |-> Number(FALSE, 6, 0)]

\* The map keeps its zoom between minZoom and maxZoom.
ClampZoom(z) ==
    IF (z.neg /\ ~IsZero(z)) \/ z.whole < MinZoom THEN Number(FALSE, MinZoom, 0)
    ELSE IF z.whole >= MaxZoom THEN Number(FALSE, MaxZoom, 0)
    ELSE Number(FALSE, z.whole, z.frac)

\* The map's position after it is given a center [lng, lat] and a zoom.
MapAt(center, zoom) == [zoom |-> ClampZoom(zoom), lat |-> center[2], lng |-> center[1]]

\* The parts of a hash read as lat/lng/zoom.
ReadAsLatLngZoom(str, parts) ==
    IF str # <<>> /\ Len(parts) = 3
    THEN [zoom |-> ParseFloat(parts[3]), lat |-> ParseFloat(parts[1]),
          lng |-> ParseFloat(parts[2])]
    ELSE [zoom |-> NaN, lat |-> NaN, lng |-> NaN]
\* if (hash) { parts = hash.split('/'); if (parts.length === 3) { ... } }:
\* zoom, lat and lng are parseFloat of the three parts of a hash that is
\* not empty and has three parts, and NaN for any other hash.
ReadParts(str, parts) ==
    IF str # <<>> /\ Len(parts) = 3
    THEN [zoom |-> ParseFloat(parts[1]), lat |-> ParseFloat(parts[2]),
          lng |-> ParseFloat(parts[3])]
    ELSE [zoom |-> NaN, lat |-> NaN, lng |-> NaN]

\* The zoom, lat and lng that window.location.hash holds, after
\* hash.replace('#', '').
ReadHash(h) == ReadParts(RemoveFirstHash(h), Split(RemoveFirstHash(h)))

\* !isNaN(zoom) && !isNaN(lat) && !isNaN(lng)
AllNumbers(r) == ~IsNaN(r.zoom) /\ ~IsNaN(r.lat) /\ ~IsNaN(r.lng)

\* getInitialPosition()
GetInitialPosition(h) ==
    LET r == ReadHash(h)
    IN  IF AllNumbers(r)
        THEN [center |-> <<r.lng, r.lat>>, zoom |-> r.zoom]
        ELSE [center |-> MAP_CONFIG.center, zoom |-> MAP_CONFIG.zoom]

\* clearTimeout that leaves the timeout pending.
ClearTimeoutForgotten(ts, id) == ts
\* clearTimeout(id): the timeout id is no longer pending; nothing happens
\* for an id that is not pending.
ClearTimeout(ts, id) == [i \in DOMAIN ts \ {id} |-> ts[i]]

\* setTimeout(f, ms), id being the fresh id it returns.
SetTimeout(ts, id, ms) == [i \in DOMAIN ts \cup {id} |-> IF i = id THEN ms ELSE ts[i]]

\* The hash written from the position the map had when the timeout was set.
FormatHashOfLastMoveend(v) ==
    <<"#">> \o ToFixed(written.at.zoom, 2) \o <<"/">> \o ToFixed(written.at.lat, 4)
            \o <<"/">> \o ToFixed(written.at.lng, 4)
\* `#${zoom.toFixed(2)}/${center.lat.toFixed(4)}/${center.lng.toFixed(4)}`
FormatHash(v) ==
    <<"#">> \o ToFixed(v.zoom, 2) \o <<"/">> \o ToFixed(v.lat, 4)
            \o <<"/">> \o ToFixed(v.lng, 4)

\* Setting the hash by assignment to location.hash raises a hashchange
\* event when the hash changes.
RaisedByAssignment(old, new) == IF old # new THEN 1 ELSE 0
\* window.history.replaceState(null, null, hash) raises no hashchange event.
RaisedByReplaceState(old, new) == 0

\* The positions the user drags the map to.
Positions ==
    {[zoom |-> Number(FALSE, 7, 500), lat |-> Number(FALSE, 1, 5), lng |-> Number(TRUE, 2, 50000)],
     [zoom |-> Number(FALSE, 12, 0), lat |-> Number(FALSE, 53, 50000), lng |-> Number(TRUE, 0, 4)]}

\* The hashes the user navigates to: a position, a position beyond
\* maxZoom with trailing letters, a hash of two parts, and no hash.
NavHashes ==
    {<<"#", "7", "/", "1", "/", "-", "2">>,
     <<"#", "2", "5", "/", "1", "x", "/", "2">>,
     <<"#", "7", "/", "1">>,
     <<>>}

\* The browser has the page's URL and is about to run app.js.
HashInit ==
    /\ PipeIdle
    /\ MakeIdle
    /\ LoadIdle
    /\ hash \in NavHashes
    /\ loaded = FALSE
    /\ initialPosition = NoPosition
    /\ view = NoView
    /\ moving = FALSE
    /\ queue = 0
    /\ timers = <<>>
    /\ hashUpdateTimeout = 0
    /\ sinceMoveend = 0
    /\ handled = [hash |-> <<>>, jumped |-> FALSE, center |-> <<NaN, NaN>>, zoom |-> NaN,
                  before |-> NoView]
    /\ written = [hash |-> <<>>, view |-> NoView, since |-> 0, at |-> NoView]
    /\ count = NoCounts

\* app.js runs: the initial position is read from the hash and the map is
\* made there; the listeners are registered.
LoadPage ==
    /\ ~loaded
    /\ loaded' = TRUE
    /\ initialPosition' = GetInitialPosition(hash)
    /\ view' = MapAt(initialPosition'.center, initialPosition'.zoom)
    /\ UNCHANGED <<hash, moving, queue, timers, hashUpdateTimeout, sinceMoveend,
                   handled, written, count>>
    /\ UNCHANGED offHash

\* map.on('moveend', ...): clear the pending timeout and set a new one.
OnMoveend ==
    /\ timers' = SetTimeout(ClearTimeout(timers, hashUpdateTimeout), count.moveends + 1, Delay)
    /\ hashUpdateTimeout' = count.moveends + 1
    /\ sinceMoveend' = 0
    /\ written' = [written EXCEPT !.at = view']

\* The user drags or zooms the map; no moveend yet.
DragTo(pos) ==
    /\ loaded
    /\ count.inputs < MaxInputs
    /\ view' = pos
    /\ moving' = TRUE
    /\ count' = [count EXCEPT !.inputs = @ + 1]
    /\ UNCHANGED <<hash, loaded, initialPosition, queue, timers, hashUpdateTimeout,
                   sinceMoveend, handled, written>>
    /\ UNCHANGED offHash

\* The gesture ends: the map fires moveend.
Release ==
    /\ moving
    /\ moving' = FALSE
    /\ view' = view
    /\ OnMoveend
    /\ count' = [count EXCEPT !.userEnds = @ + 1, !.moveends = @ + 1]
    /\ UNCHANGED <<hash, loaded, initialPosition, queue, handled>>
    /\ UNCHANGED offHash

\* The user edits the hash in the address bar or goes back or forward:
\* the hash changes and the browser raises hashchange.
Navigate(h) ==
    /\ loaded
    /\ count.inputs < MaxInputs
    /\ h # hash
    /\ hash' = h
    /\ queue' = queue + 1
    /\ count' = [count EXCEPT !.inputs = @ + 1, !.navs = @ + 1, !.raised = @ + 1]
    /\ UNCHANGED <<loaded, initialPosition, view, moving, timers, hashUpdateTimeout,
                   sinceMoveend, handled, written>>
    /\ UNCHANGED offHash

\* window.addEventListener('hashchange', ...): the hash is read as it is
\* now; when it holds three numbers, map.jumpTo, which fires moveend.
HashChange ==
    /\ loaded
    /\ queue > 0
    /\ queue' = queue - 1
    /\ LET r == ReadHash(hash)
       IN  IF AllNumbers(r)
           THEN /\ view' = MapAt(<<r.lng, r.lat>>, r.zoom)
                /\ OnMoveend
                /\ handled' = [hash |-> hash, jumped |-> TRUE, center |-> <<r.lng, r.lat>>,
                               zoom |-> r.zoom, before |-> view]
                /\ count' = [count EXCEPT !.handled = @ + 1, !.jumps = @ + 1,
                                          !.moveends = @ + 1]
           ELSE /\ handled' = [hash |-> hash, jumped |-> FALSE, center |-> <<NaN, NaN>>,
                               zoom |-> NaN, before |-> view]
                /\ count' = [count EXCEPT !.handled = @ + 1]
                /\ UNCHANGED <<view, timers, hashUpdateTimeout, sinceMoveend, written>>
    /\ UNCHANGED <<hash, loaded, initialPosition, moving>>
    /\ UNCHANGED offHash

\* TickMs milliseconds pass.
Tick ==
    /\ loaded
    /\ sinceMoveend < Delay \/ \E i \in DOMAIN timers : timers[i] > 0
    /\ timers' = [i \in DOMAIN timers |-> IF timers[i] > TickMs THEN timers[i] - TickMs ELSE 0]
    /\ sinceMoveend' = IF sinceMoveend + TickMs < Delay THEN sinceMoveend + TickMs ELSE Delay
    /\ UNCHANGED <<hash, loaded, initialPosition, view, moving, queue, hashUpdateTimeout,
                   handled, written, count>>
    /\ UNCHANGED offHash

\* A timeout is due: updateHash() writes the map's position to the hash.
TimerFire ==
    /\ \E id \in DOMAIN timers :
          /\ timers[id] = 0
          /\ timers' = [i \in DOMAIN timers \ {id} |-> timers[i]]
    /\ hash' = FormatHash(view)
    /\ queue' = queue + RaisedByReplaceState(hash, hash')
    /\ written' = [written EXCEPT !.hash = hash', !.view = view, !.since = sinceMoveend]
    /\ count' = [count EXCEPT !.updates = @ + 1,
                              !.raised = @ + RaisedByReplaceState(hash, hash')]
    /\ UNCHANGED <<loaded, initialPosition, view, moving, hashUpdateTimeout, sinceMoveend,
                   handled>>
    /\ UNCHANGED offHash

HashNext ==
    \/ LoadPage
    \/ \E pos \in Positions : DragTo(pos)
    \/ Release
    \/ \E h \in NavHashes : Navigate(h)
    \/ HashChange
    \/ Tick
    \/ TimerFire

HashSpec == HashInit /\ [][HashNext]_vars

\* The characters of a typed hash: a digit, the point, the sign, the
\* separator and a letter.
HashChars == {"7", ".", "-", "/", "x"}

\* Every hash of at most MaxHashLen characters after its '#', and no hash.
TypedHashes ==
    {<<>>} \cup {<<"#">> \o w : w \in UNION {[1..k -> HashChars] : k \in 1..MaxHashLen}}

\* The page is about to run app.js under a typed hash, or it was opened
\* without a hash and the user has just navigated to a typed one.
ParseInit ==
    /\ PipeIdle
    /\ MakeIdle
    /\ LoadIdle
    /\ hash \in TypedHashes
    /\ \/ /\ loaded = FALSE
          /\ initialPosition = NoPosition
          /\ view = NoView
          /\ queue = 0
          /\ count = NoCounts
       \/ /\ hash # <<>>
          /\ loaded = TRUE
          /\ initialPosition = GetInitialPosition(<<>>)
          /\ view = MapAt(MAP_CONFIG.center, MAP_CONFIG.zoom)
          /\ queue = 1
          /\ count = [NoCounts EXCEPT !.inputs = 1, !.navs = 1, !.raised = 1]
    /\ moving = FALSE
    /\ timers = <<>>
    /\ hashUpdateTimeout = 0
    /\ sinceMoveend = 0
    /\ handled = [hash |-> <<>>, jumped |-> FALSE, center |-> <<NaN, NaN>>, zoom |-> NaN,
                  before |-> NoView]
    /\ written = [hash |-> <<>>, view |-> NoView, since |-> 0, at |-> NoView]

\* The two places where app.js reads the hash.
ParseNext ==
    \/ LoadPage
    \/ HashChange

ParseSpec == ParseInit /\ [][ParseNext]_vars

\* Time goes on, and the browser runs the timeouts that are due.
FairHashSpec ==
    /\ HashSpec
    /\ WF_vars(Tick)
    /\ WF_vars(TimerFire)

\* ------------------------------------------------------------- the map's load callback

\* The ids a hotspot feature can carry: tiles built without generated ids
\* give features whose id is undefined.
FeatureIds == {Undefined} \cup {Id(n) : n \in 0..MaxFeatureId}

\* e.features of a mouse event: no feature, one, or two stacked ones.
FeatureLists ==
    {<<>>} \cup {<<a>> : a \in FeatureIds}
           \cup {<<a, b>> : a \in FeatureIds, b \in FeatureIds}

\* A setFeatureState that only ever switches hover on.
SetFeatureStateTrueOnly(fs, id, val) ==
    IF id.kind = "id" /\ val = "true" THEN [fs EXCEPT ![id.n] = val] ELSE fs

\* map.setFeatureState({source, sourceLayer, id}, {hover: val}): the state
\* is kept per feature id; without an id the map reports an error and
\* keeps its state.
SetFeatureState(fs, id, val) ==
    IF id.kind = "id" THEN [fs EXCEPT ![id.n] = val] ELSE fs

\* A number that only counts as absent when it is undefined.
TruthyWhenDefined(x) == TRUE

\* A header field is a number: truthy unless it is 0.
Truthy(x) == x # 0

\* The longitudes and latitudes a header can carry.
HeaderValues == {-1, 0, 1}
Headers == [minLon : HeaderValues, maxLon : HeaderValues,
            minLat : HeaderValues, maxLat : HeaderValues]

UKBounds == <<<<-8, 49>>, <<2, 61>>>>

LoadInit ==
    /\ PipeIdle
    /\ MakeIdle
    /\ HashIdle
    /\ LoadIdle

\* map.on('load', ...): the layers are added, the hover handlers are
\* registered and the bounds fetch is started.
MapLoad ==
    /\ ~mapLoaded
    /\ mapLoaded' = TRUE
    /\ fetch' = "fetch"
    /\ UNCHANGED <<hoveredHotspotId, featureState, cursor, lastEvent,
                   dataBounds, header, fitted, clicks>>
    /\ UNCHANGED offLoad

\* mousemove on hotspots-fill.
MouseMove(features) ==
    /\ mapLoaded
    /\ cursor' = "pointer"
    /\ lastEvent' = "mousemove"
    /\ IF Len(features) > 0
       THEN /\ hoveredHotspotId' = features[1]
            /\ featureState' =
                 SetFeatureState(
                     IF hoveredHotspotId # Null
                     THEN SetFeatureState(featureState, hoveredHotspotId,
                                          "false")
                     ELSE featureState,
                     features[1], "true")
       ELSE UNCHANGED <<hoveredHotspotId, featureState>>
    /\ UNCHANGED <<mapLoaded, dataBounds, fetch, header, fitted, clicks>>
    /\ UNCHANGED offLoad

\* mouseleave on hotspots-fill.
MouseLeave ==
    /\ mapLoaded
    /\ cursor' = ""
    /\ lastEvent' = "mouseleave"
    /\ featureState' =
         IF hoveredHotspotId # Null
         THEN SetFeatureState(featureState, hoveredHotspotId, "false")
         ELSE featureState
    /\ hoveredHotspotId' = Null
    /\ UNCHANGED <<mapLoaded, dataBounds, fetch, header, fitted, clicks>>
    /\ UNCHANGED offLoad

HoverNext ==
    \/ MapLoad
    \/ \E features \in FeatureLists : MouseMove(features)
    \/ MouseLeave

HoverSpec == LoadInit /\ [][HoverNext]_vars

\* fetch(tiles.points) resolves; its callback asks for the array buffer.
FetchResolves ==
    /\ fetch = "fetch"
    /\ fetch' = "arrayBuffer"
    /\ UNCHANGED <<mapLoaded, hoveredHotspotId, featureState, cursor,
                   lastEvent, dataBounds, header, fitted, clicks>>
    /\ UNCHANGED offLoad

\* response.arrayBuffer() resolves; its callback asks for the header.
ArrayBufferResolves ==
    /\ fetch = "arrayBuffer"
    /\ fetch' = "getHeader"
    /\ UNCHANGED <<mapLoaded, hoveredHotspotId, featureState, cursor,
                   lastEvent, dataBounds, header, fitted, clicks>>
    /\ UNCHANGED offLoad

\* p.getHeader() resolves with h; the last callback keeps its bounds when
\* all four fields are truthy.
HeaderResolves(h) ==
    /\ fetch = "getHeader"
    /\ fetch' = "done"
    /\ header' = h
    /\ dataBounds' =
         IF /\ Truthy(h.minLon)
            /\ Truthy(h.maxLon)
            /\ Truthy(h.minLat)
            /\ Truthy(h.maxLat)
         THEN <<<<h.minLon, h.minLat>>, <<h.maxLon, h.maxLat>>>>
         ELSE dataBounds
    /\ UNCHANGED <<mapLoaded, hoveredHotspotId, featureState, cursor,
                   lastEvent, fitted, clicks>>
    /\ UNCHANGED offLoad

\* Any promise of the chain rejects: .catch sets the UK bounds.
Rejects ==
    /\ fetch \in {"fetch", "arrayBuffer", "getHeader"}
    /\ fetch' = "failed"
    /\ dataBounds' = UKBounds
    /\ UNCHANGED <<mapLoaded, hoveredHotspotId, featureState, cursor,
                   lastEvent, header, fitted, clicks>>
    /\ UNCHANGED offLoad

\* A click on fit-bounds: map.fitBounds with dataBounds, or with the UK
\* bounds while dataBounds is null.  fitted keeps the argument and how far
\* the chain had got.
ClickFit ==
    /\ clicks < MaxClicks
    /\ clicks' = clicks + 1
    /\ fitted' = [bounds |-> IF dataBounds # <<>> THEN dataBounds
                             ELSE UKBounds,
                  at |-> fetch]
    /\ UNCHANGED <<mapLoaded, hoveredHotspotId, featureState, cursor,
                   lastEvent, dataBounds, fetch, header>>
    /\ UNCHANGED offLoad

FitNext ==
    \/ MapLoad
    \/ FetchResolves
    \/ ArrayBufferResolves
    \/ \E h \in Headers : HeaderResolves(h)
    \/ Rejects
    \/ ClickFit

FitSpec == LoadInit /\ [][FitNext]_vars

\* ------------------------------------------------------------- properties
Reached(stages) == pc \in stages

\* C1: every polygon the run returns has area >= minArea, and the area
\* filter discards exactly the polygons whose area is strictly less than
\* minArea: a polygon whose area equals minArea is kept.
C1_AreaFilterKeepsAtLeastMinArea ==
    Reached({"done"}) =>
        /\ \A p \in output : Cardinality(p) >= config.minArea
        /\ \A p \in shrunk : (p \notin output) <=> (Cardinality(p) < config.minArea)

\* A finished run that kept a polygon of area exactly minArea and
\* discarded a smaller one.
C1_Witness ==
    /\ pc = "done"
    /\ \E p \in output : Cardinality(p) = config.minArea
    /\ \E q \in shrunk : q \notin output

\* C2: a run with a malformed configuration (bufferDistance <= 0, minArea
\* < 0 or negativeBufferDistance < 0) ends in a ConfigurationError, raised
\* before any of the four stages has produced anything, whatever the points.
C2_MalformedConfigFailsFast ==
    (\/ config.bufferDistance <= 0
     \/ config.minArea < 0
     \/ config.negativeBufferDistance < 0) =>
        /\ pc \in {"start", "ingested", "failed"}
        /\ (pc = "failed" => error = "ConfigurationError")
        /\ disks = <<>> /\ regions = {} /\ shrunk = {} /\ output = {}

\* A run over at least one point that failed on bufferDistance = 0.
C2_Witness ==
    /\ pc = "failed"
    /\ error = "ConfigurationError"
    /\ config.bufferDistance = 0
    /\ config.minArea >= 0
    /\ config.negativeBufferDistance >= 0
    /\ Len(points) > 0

HasBadRow == \E i \in DOMAIN csv : ~(csv[i].x.fin /\ csv[i].y.fin)

Overlap(i, j) == disks[i] \cap disks[j] # {}

\* The points a chain of overlapping disks links to the points of seen.
RECURSIVE ChainFrom(_)
ChainFrom(seen) ==
    LET more == {j \in DOMAIN disks : \E i \in seen : Overlap(i, j)} \ seen
    IN  IF more = {} THEN seen ELSE ChainFrom(seen \cup more)

\* The dissolved polygons that hold the whole disk of point i.
RegionsOf(i) == {r \in regions : disks[i] \subseteq r}

\* C4: after the dissolve stage the polygons are pairwise disjoint, every
\* point's disk lies in exactly one polygon, every polygon holds a point,
\* and two points lie in the same polygon if and only if a chain of points
\* with overlapping disks links them.
C4_OnePolygonPerCluster ==
    Reached({"unioned"}) =>
        /\ \A r1 \in regions : \A r2 \in regions : r1 # r2 => r1 \cap r2 = {}
        /\ \A i \in DOMAIN disks : Cardinality(RegionsOf(i)) = 1
        /\ \A r \in regions : \E i \in DOMAIN disks : disks[i] \subseteq r
        /\ \A i \in DOMAIN disks :
               {j \in DOMAIN disks : RegionsOf(j) = RegionsOf(i)} = ChainFrom({i})

\* Points after the dissolve, two of which have disks that do not overlap
\* and lie in one polygon through a third.
C4_Witness ==
    /\ pc = "unioned"
    /\ \E i \in DOMAIN disks : \E j \in DOMAIN disks :
          ~Overlap(i, j) /\ RegionsOf(i) = RegionsOf(j)

\* The squared distance between points p and q.
Dist2(p, q) == Sq(p.x.v - q.x.v) + Sq(p.y.v - q.y.v)

\* C5: with bufferDistance = d, no negative buffer and minArea = 0, two
\* points closer than 2d apart yield exactly one polygon and two points
\* farther than 2d apart yield exactly two.
C5_TwoPointsMergeBelowTwiceTheBuffer ==
    (/\ pc = "done"
     /\ Len(points) = 2
     /\ config.negativeBufferDistance = 0
     /\ config.minArea = 0) =>
        /\ Dist2(points[1], points[2]) < Sq(2 * config.bufferDistance)
              => Cardinality(output) = 1
        /\ Dist2(points[1], points[2]) > Sq(2 * config.bufferDistance)
              => Cardinality(output) = 2

\* Two distinct points closer than 2d, off the axes, merged into one polygon.
C5_Witness ==
    /\ pc = "done"
    /\ Len(points) = 2
    /\ config.negativeBufferDistance = 0
    /\ config.minArea = 0
    /\ points[1].x.v # points[2].x.v
    /\ points[1].y.v # points[2].y.v
    /\ Dist2(points[1], points[2]) < Sq(2 * config.bufferDistance)
    /\ Cardinality(output) = 1

\* C6: a run over an empty point sequence with a valid configuration
\* finishes without an error and returns the empty polygon set.
C6_EmptyInputEmptyOutput ==
    (/\ pc \notin {"start"}
     /\ points = <<>>
     /\ config.bufferDistance > 0
     /\ config.minArea >= 0
     /\ config.negativeBufferDistance >= 0) =>
        /\ pc # "failed"
        /\ error = "none"
        /\ regions = {} /\ shrunk = {} /\ output = {}

\* A finished run over an empty file.
C6_Witness ==
    /\ pc = "done"
    /\ csv = <<>>
    /\ points = <<>>
    /\ output = {}

\* C7: for the same points, a larger bufferDistance never yields more
\* polygons after the union than a smaller one.
C7_MoreBufferNeverMoreClusters ==
    Reached({"unioned"}) =>
        \A d2 \in 1..MaxBuffer :
            d2 > config.bufferDistance =>
                Cardinality(UnaryUnion(BufferAll(points, d2))) <= Cardinality(regions)

\* Points that are separate clusters under the run's buffer and merge
\* under a larger one.
C7_Witness ==
    /\ pc = "unioned"
    /\ Cardinality(regions) >= 2
    /\ \E d2 \in 1..MaxBuffer :
          /\ d2 > config.bufferDistance
          /\ Cardinality(UnaryUnion(BufferAll(points, d2))) < Cardinality(regions)

\* C8: for the same points, bufferDistance and negativeBufferDistance, a
\* larger minArea never returns more polygons than a smaller one.
C8_MoreMinAreaNeverMorePolygons ==
    Reached({"done"}) =>
        \A m2 \in MinAreas \cup {2 * AreaStep, 3 * AreaStep} :
            m2 >= config.minArea =>
                Cardinality(FilterByArea(shrunk, m2)) <= Cardinality(output)

\* A finished run that returned polygons, fewer of which pass a larger
\* minArea.
C8_Witness ==
    /\ pc = "done"
    /\ Cardinality(output) >= 2
    /\ \E m2 \in MinAreas :
          /\ m2 > config.minArea
          /\ FilterByArea(shrunk, m2) # {}
          /\ Cardinality(FilterByArea(shrunk, m2)) < Cardinality(output)

\* C9: when negativeBufferDistance > 0, every polygon after the negative
\* buffer stage is contained in a polygon of the union stage, and the
\* stage adds no area outside the polygons it shrank.
C9_NegativeBufferContained ==
    (Reached({"shrunk"}) /\ config.negativeBufferDistance > 0) =>
        /\ \A p \in shrunk : \E r \in regions : p \subseteq r
        /\ UNION shrunk \subseteq UNION regions

\* A negative buffer that left a polygon strictly smaller than the one it
\* came from.
C9_Witness ==
    /\ pc = "shrunk"
    /\ config.negativeBufferDistance > 0
    /\ \E p \in shrunk : \E r \in regions : p \subseteq r /\ p # r /\ p # {}

\* The stages a run goes through, in order; "failed" ends a run instead.
StageOrder == <<"start", "ingested", "validated", "buffered", "unioned", "shrunk", "done">>

\* The stages from the k-th on.
StagesFrom(k) == {StageOrder[i] : i \in k..Len(StageOrder)}

\* C11: the four stages run in the order buffering, union, negative buffer,
\* area filter, each on the complete output of the one before: nothing is
\* unioned before every point has its disk, the union covers the full disk
\* set before anything is shrunk, the negative buffer changes the polygons
\* only when negativeBufferDistance > 0, and the area filter runs last, on
\* the shrunk polygons.
C11_StagesInFixedOrder ==
    /\ pc \in StagesFrom(1) \cup {"failed"}
    /\ (pc \notin StagesFrom(4)) => disks = <<>>
    /\ (pc \notin StagesFrom(5)) => regions = {}
    /\ (pc \notin StagesFrom(6)) => shrunk = {}
    /\ (pc \notin StagesFrom(7)) => output = {}
    /\ (pc \in StagesFrom(4)) => Len(disks) = Len(points)
    /\ (pc \in StagesFrom(5)) =>
           UNION regions = UNION {disks[i] : i \in DOMAIN disks}
    /\ (pc \in StagesFrom(6)) =>
           /\ config.negativeBufferDistance = 0 => shrunk = regions
           /\ \A p \in shrunk : \E r \in regions : p \subseteq r
    /\ (pc \in StagesFrom(7)) => output \subseteq shrunk

\* A finished run over several points whose polygons were shrunk by the
\* negative buffer before the area filter kept them.
C11_Witness ==
    /\ pc = "done"
    /\ Len(disks) >= 2
    /\ config.negativeBufferDistance > 0
    /\ output # {}
    /\ \A p \in output : p \notin regions

\* The samples of r whose whole neighbourhood of radius n lies in r.
Core(r, n) == {s \in r : \A o \in BallTable[n] : s + o \in r}

\* C12: with negativeBufferDistance = n > 0, a region whose shrunk geometry
\* is empty contributes no polygon, a region whose shrunk geometry has
\* several disjoint parts contributes each part as a polygon of its own,
\* no polygon of the stage is empty or in several parts, and the run goes
\* on without an error.
C12_DegenerateShrinkTolerated ==
    (pc \in {"shrunk", "done"} /\ config.negativeBufferDistance > 0) =>
        /\ error = "none"
        /\ {} \notin shrunk
        /\ \A p \in shrunk : Parts(p) = {p}
        /\ \A r \in regions :
               /\ {p \in shrunk : p \subseteq r} = Parts(Core(r, config.negativeBufferDistance))
               /\ Core(r, config.negativeBufferDistance) = {} =>
                      ~(\E p \in shrunk : p \subseteq r)
        /\ pc = "done" => output = {p \in shrunk : Cardinality(p) >= config.minArea}

\* A finished run in which one region of the union split in two under the
\* negative buffer, and both parts came out as polygons.
C12_Witness ==
    /\ pc = "done"
    /\ error = "none"
    /\ config.negativeBufferDistance > 0
    /\ \E r \in regions :
          /\ Cardinality({p \in shrunk : p \subseteq r}) = 2
          /\ Cardinality({p \in output : p \subseteq r}) = 2

\* A finished run in which a region of the union vanished under the
\* negative buffer and left no polygon.
C12_VanishReached ==
    /\ pc = "done"
    /\ error = "none"
    /\ config.negativeBufferDistance > 0
    /\ regions # {}
    /\ shrunk = {}
    /\ output = {}

\* The area of the disk of radius d: the number of lattice samples nearer
\* than d to its centre.
DiskArea(d) ==
    Cardinality({q \in (-2 * d..2 * d) \X (-2 * d..2 * d) :
                    Sq(q[1]) + Sq(q[2]) < Sq(2 * d)})

\* C13: a run over a single point with bufferDistance = d and no negative
\* buffer returns exactly one polygon, of the area of the disk of radius d,
\* when minArea is at most that area, and no polygon when minArea is
\* greater.
C13_SinglePointYieldsOneDisk ==
    (/\ pc = "done"
     /\ Len(points) = 1
     /\ config.negativeBufferDistance = 0) =>
        IF config.minArea <= DiskArea(config.bufferDistance)
        THEN /\ Cardinality(output) = 1
             /\ \A p \in output : Cardinality(p) = DiskArea(config.bufferDistance)
        ELSE output = {}

\* A finished run over one point whose disk passed a positive minArea.
C13_Witness ==
    /\ pc = "done"
    /\ Len(points) = 1
    /\ config.negativeBufferDistance = 0
    /\ config.minArea > 0
    /\ config.minArea <= DiskArea(config.bufferDistance)
    /\ Cardinality(output) = 1

\* A finished run over one point whose disk is smaller than minArea.
C13_DroppedReached ==
    /\ pc = "done"
    /\ Len(points) = 1
    /\ config.negativeBufferDistance = 0
    /\ config.minArea > DiskArea(config.bufferDistance)
    /\ shrunk # {}
    /\ output = {}

\* The points of pts without their repeats: the first copy of each, in order.
Dedup(pts) ==
    LET F[i \in 0..Len(pts)] ==
            IF i = 0 THEN <<>>
            ELSE IF \E j \in 1..(i - 1) : pts[j] = pts[i]
                 THEN F[i - 1]
                 ELSE Append(F[i - 1], pts[i])
    IN  F[Len(pts)]

\* C14: a run over points some of which have identical coordinates does
\* not fail, and it returns the polygon set that the same configuration
\* returns for the points with the repeats removed.
C14_DuplicatesChangeNothing ==
    (pc \in StagesFrom(4) /\ Dedup(points) # points) =>
        /\ error = "none"
        /\ Len(disks) = Len(points)
        /\ pc = "done" =>
               output =
                   FilterByArea(
                       ApplyNegativeBuffer(
                           UnaryUnion(BufferAll(Dedup(points), config.bufferDistance)),
                           config.negativeBufferDistance),
                       config.minArea)

\* A finished run over three points, two of them at the same place and
\* the third apart, that returned two polygons.
C14_Witness ==
    /\ pc = "done"
    /\ Len(points) = 3
    /\ Len(Dedup(points)) = 2
    /\ Cardinality(output) = 2

\* The event is in the trace before position i.
Before(i, ev, what) == \E j \in 1..(i - 1) : trace[j] = [ev |-> ev, what |-> what]

\* C15: in make build, the hotspots recipe starts only after the ingest
\* recipe has ended, the package recipe only after the hotspots recipe
\* has ended, and "Build complete!" is printed only after all three have
\* ended; a build that ends well has printed it.
C15_BuildRunsIngestHotspotsPackage ==
    goal = "build" =>
        /\ \A i \in DOMAIN trace :
               /\ trace[i] = [ev |-> "start", what |-> "hotspots"] =>
                      Before(i, "end", "ingest")
               /\ trace[i] = [ev |-> "start", what |-> "package"] =>
                      Before(i, "end", "hotspots")
               /\ trace[i] = [ev |-> "echo", what |-> "Build complete!"] =>
                      /\ Before(i, "end", "ingest")
                      /\ Before(i, "end", "hotspots")
                      /\ Before(i, "end", "package")
        /\ running = "hotspots" => \E j \in DOMAIN trace : trace[j] = [ev |-> "end", what |-> "ingest"]
        /\ running = "package" => \E j \in DOMAIN trace : trace[j] = [ev |-> "end", what |-> "hotspots"]
        /\ status = "ok" =>
               \E i \in DOMAIN trace : trace[i] = [ev |-> "echo", what |-> "Build complete!"]

\* A make build that ended well and printed "Build complete!".
C15_Witness ==
    /\ goal = "build"
    /\ status = "ok"
    /\ \E i \in DOMAIN trace : trace[i] = [ev |-> "echo", what |-> "Build complete!"]
    /\ \E i \in DOMAIN trace : trace[i] = [ev |-> "end", what |-> "package"]

\* A number of the page as a count of units of 10^-FracDigits.
AsUnits(x) == (IF x.neg THEN -1 ELSE 1) * (x.whole * Unit + x.frac)

\* y has f decimals and no number of f decimals is nearer to x.
IsRounded(x, y, f) ==
    LET step == 10 ^ (FracDigits - f)
        gap == AsUnits(y) - AsUnits(x)
    IN  /\ y.fin
        /\ AsUnits(y) % step = 0
        /\ 2 * gap <= step /\ 2 * gap >= -step

\* What holds of the moveend debounce in every state: at most one timeout
\* is pending, and it is the one the latest moveend set; updateHash has
\* run at most once per moveend; when it last ran, Delay ms had passed
\* since the last moveend, and the hash it wrote reads back as the zoom,
\* lat and lng the map had at that moment, to 2, 4 and 4 decimals.
DebounceHolds ==
    /\ Cardinality(DOMAIN timers) <= 1
    /\ \A id \in DOMAIN timers : id = count.moveends /\ id = hashUpdateTimeout
    /\ count.updates + Cardinality(DOMAIN timers) <= count.moveends
    /\ count.updates > 0 =>
           /\ written.since >= 100
           /\ LET back == [zoom |-> ParseFloat(Split(RemoveFirstHash(written.hash))[1]),
                           lat |-> ParseFloat(Split(RemoveFirstHash(written.hash))[2]),
                           lng |-> ParseFloat(Split(RemoveFirstHash(written.hash))[3])]
              IN  /\ Len(Split(RemoveFirstHash(written.hash))) = 3
                  /\ IsRounded(written.view.zoom, back.zoom, 2)
                  /\ IsRounded(written.view.lat, back.lat, 4)
                  /\ IsRounded(written.view.lng, back.lng, 4)

\* C16: at most one updateHash timeout is pending at any time, updateHash
\* runs only when 100 ms have passed without a moveend and writes the
\* position the map has at that moment, and a pending timeout always leads
\* to a state with none pending, which only a run of updateHash brings
\* about: every burst of moveend events is followed by one updateHash.
C16_MoveendDebounced ==
    /\ []DebounceHolds
    /\ (timers # <<>>) ~> (timers = <<>> /\ count.updates > 0)

\* Two moveend events less than 100 ms apart, followed by one updateHash,
\* which ran while the user was dragging the map on.
C16_Witness ==
    /\ count.moveends = 2
    /\ count.updates = 1
    /\ timers = <<>>
    /\ moving
    /\ written.view # written.at

\* Nothing is left for the page to do by itself.
Quiet == queue = 0 /\ timers = <<>>

\* No jumpTo and no updateHash will happen unless a hashchange that the
\* user's navigation raised is still to be handled.
Settled == timers = <<>> /\ queue <= count.navs - count.handled

\* What holds of the hash sync in every state: every hashchange event was
\* raised by the user's navigation and none by updateHash; a hashchange
\* leads to at most one jumpTo; every moveend comes from a gesture of the
\* user or from a jumpTo; updateHash runs at most once per moveend; and
\* with no event and no timeout pending only the user can make the page
\* act again.
NoFeedback ==
    /\ count.raised = count.navs
    /\ queue + count.handled = count.raised
    /\ count.jumps <= count.handled
    /\ count.moveends = count.userEnds + count.jumps
    /\ count.updates + Cardinality(DOMAIN timers) <= count.moveends
    /\ count.navs + count.userEnds <= count.inputs
    /\ Quiet => ~ENABLED (HashChange \/ TimerFire)

\* C19: hash syncing never feeds back on itself: updateHash raises no
\* hashchange, a hashchange causes at most one jumpTo, one moveend and one
\* updateHash, and in the end no timeout is pending, for good, and no
\* event but those the user's own navigation raised.
C19_NoHashFeedbackLoop ==
    /\ []NoFeedback
    /\ <>[]Settled

\* One navigation by the user and nothing else: one hashchange, one
\* jumpTo, one moveend, one updateHash that rewrote the hash, and quiet.
C19_Witness ==
    /\ count.inputs = 1
    /\ count.navs = 1
    /\ count.handled = 1
    /\ count.jumps = 1
    /\ count.moveends = 1
    /\ count.updates = 1
    /\ written.hash # handled.hash
    /\ Quiet

\* The part begins, after an optional sign, with a digit or with a point
\* and a digit.
HasNumber(part) ==
    LET body == IF part # <<>> /\ part[1] \in {"-", "+"} THEN Tail(part) ELSE part
    IN  /\ body # <<>>
        /\ \/ IsDigit(body[1])
           \/ body[1] = "." /\ Len(body) >= 2 /\ IsDigit(body[2])

\* The positions of the slashes of a hash, its '#' left out.
Slashes(h) == {i \in 1..(Len(h) - 1) : h[i + 1] = "/"}

\* The text of a hash between positions a and b of its text after '#'.
Piece(h, a, b) == SubSeq(h, a + 1, b + 1)

\* The hash has exactly two slashes after its '#', and each of the three
\* parts they bound holds a number.
ThreeNumbers(h) ==
    /\ h # <<>>
    /\ Cardinality(Slashes(h)) = 2
    /\ LET s1 == CHOOSE i \in Slashes(h) : \A j \in Slashes(h) : i <= j
           s2 == CHOOSE i \in Slashes(h) : \A j \in Slashes(h) : i >= j
       IN  /\ HasNumber(Piece(h, 1, s1 - 1))
           /\ HasNumber(Piece(h, s1 + 1, s2 - 1))
           /\ HasNumber(Piece(h, s2 + 1, Len(h) - 1))

\* The zoom, lat and lng of a hash of three numbers.
ZoomOf(h) ==
    LET s1 == CHOOSE i \in Slashes(h) : \A j \in Slashes(h) : i <= j
    IN  ParseFloat(Piece(h, 1, s1 - 1))
LatOf(h) ==
    LET s1 == CHOOSE i \in Slashes(h) : \A j \in Slashes(h) : i <= j
        s2 == CHOOSE i \in Slashes(h) : \A j \in Slashes(h) : i >= j
    IN  ParseFloat(Piece(h, s1 + 1, s2 - 1))
LngOf(h) ==
    LET s2 == CHOOSE i \in Slashes(h) : \A j \in Slashes(h) : i >= j
    IN  ParseFloat(Piece(h, s2 + 1, Len(h) - 1))

\* C17: getInitialPosition returns center [lng, lat] and zoom read from
\* the hash when the hash, its '#' removed, splits on '/' into exactly
\* three parts that all parse to numbers, and the MAP_CONFIG center and
\* zoom for every other hash; the hashchange handler calls map.jumpTo with
\* that center and zoom for such a hash, and for every other hash calls
\* nothing and leaves the map where it was.
C17_HashAppliedIffThreeNumbers ==
    /\ (loaded /\ count.navs = 0) =>
           initialPosition =
               IF ThreeNumbers(hash)
               THEN [center |-> <<LngOf(hash), LatOf(hash)>>, zoom |-> ZoomOf(hash)]
               ELSE [center |-> MAP_CONFIG.center, zoom |-> MAP_CONFIG.zoom]
    /\ count.handled > 0 =>
           /\ handled.hash = hash
           /\ handled.jumped <=> ThreeNumbers(hash)
           /\ handled.jumped =>
                  /\ handled.center = <<LngOf(hash), LatOf(hash)>>
                  /\ handled.zoom = ZoomOf(hash)
                  /\ view.lat = LatOf(hash) /\ view.lng = LngOf(hash)
                  /\ count.jumps = count.handled
           /\ ~handled.jumped =>
                  /\ view = handled.before
                  /\ count.jumps = 0
                  /\ timers = <<>>

\* The handler has applied a hash whose second part is a fraction without
\* a whole part and whose third is a number followed by a letter.
C17_Witness ==
    /\ count.handled = 1
    /\ handled.jumped
    /\ hash = <<"#", "7", "/", ".", "7", "/", "7", "x">>
    /\ view.zoom = Number(FALSE, 7, 0)
    /\ view.lat = Number(FALSE, 0, 7 * (Unit \div 10))
    /\ view.lng = Number(FALSE, 7, 0)

\* The page has loaded under a hash of two parts, at the MAP_CONFIG
\* position.
C17_DefaultReached ==
    /\ loaded
    /\ count.navs = 0
    /\ hash = <<"#", "7", "/", "7">>
    /\ initialPosition.zoom = Number(FALSE, 6, 0)

\* The hotspots whose feature-state hover is true.
Hovered == {f \in 0..MaxFeatureId : featureState[f] = "true"}

\* C18: after any sequence of mousemove and mouseleave events on
\* hotspots-fill at most one hotspot has hover = true, and it is the one
\* whose id is hoveredHotspotId; after a mouseleave no hotspot has
\* hover = true and hoveredHotspotId is null.
C18_AtMostOneHovered ==
    /\ Cardinality(Hovered) <= 1
    /\ \A f \in Hovered : hoveredHotspotId = [kind |-> "id", n |-> f]
    /\ lastEvent = "mouseleave" =>
         /\ Hovered = {}
         /\ hoveredHotspotId = [kind |-> "null", n |-> 0]

\* The pointer has moved from hotspot 0 to hotspot 1.
C18_Witness ==
    /\ lastEvent = "mousemove"
    /\ featureState[0] = "false"
    /\ featureState[1] = "true"
    /\ hoveredHotspotId = [kind |-> "id", n |-> 1]

\* The pointer has left a hotspot it was over.
C18_LeftReached ==
    /\ lastEvent = "mouseleave"
    /\ featureState[1] = "false"

\* C20: every click on fit-bounds calls map.fitBounds with bounds that are
\* not null: the header's bounds when the chain had completed and all four
\* header fields are truthy, the UK bounds [[-8, 49], [2, 61]] otherwise.
C20_FitBoundsNeverNull ==
    clicks > 0 =>
        /\ fitted.bounds # <<>>
        /\ fitted.bounds =
             IF /\ fitted.at = "done"
                /\ header.minLon # 0
                /\ header.maxLon # 0
                /\ header.minLat # 0
                /\ header.maxLat # 0
             THEN <<<<header.minLon, header.minLat>>,
                    <<header.maxLon, header.maxLat>>>>
             ELSE <<<<-8, 49>>, <<2, 61>>>>

\* A click after the chain completed with a full header.
C20_Witness ==
    /\ clicks > 0
    /\ fitted.at = "done"
    /\ fitted.bounds = <<<<-1, 1>>, <<1, -1>>>>

\* A click before the fetch resolved.
C20_EarlyReached ==
    /\ clicks > 0
    /\ fitted.at = "fetch"
    /\ fitted.bounds = <<<<-8, 49>>, <<2, 61>>>>

\* A click after the chain failed.
C20_FailedReached ==
    /\ clicks > 0
    /\ fitted.at = "failed"

\* A click after the chain completed with a header field of 0.
C20_ZeroFieldReached ==
    /\ clicks > 0
    /\ fitted.at = "done"
    /\ header.minLon = 0
    /\ fitted.bounds = <<<<-8, 49>>, <<2, 61>>>>

====
